---- MODULE Spec2Model ----
(***************************************************************************)
(* A model of src/parse.rs: the nom-based recursive-descent parser of the   *)
(* sdb expression language.  Input text is a sequence of one-character      *)
(* strings; every nom combinator the parser uses is an operator that        *)
(* computes what the combinator computes (result value, remaining input,    *)
(* or the recoverable error it reports), and every parse function of the    *)
(* source is an operator of the same name built from those combinators.     *)
(***************************************************************************)
EXTENDS Naturals, Sequences, FiniteSets, TLC

(***************************************************************************)
(* Characters.  The classes are those of nom's character::complete          *)
(* predicates: the ASCII letters, the ASCII digits, and space, tab, carriage *)
(* return and line feed.                                                    *)
(***************************************************************************)
AlphaChars ==
    {"a", "b", "c", "d", "e", "f", "g", "h", "i", "j", "k", "l", "m",
     "n", "o", "p", "q", "r", "s", "t", "u", "v", "w", "x", "y", "z",
     "A", "B", "C", "D", "E", "F", "G", "H", "I", "J", "K", "L", "M",
     "N", "O", "P", "Q", "R", "S", "T", "U", "V", "W", "X", "Y", "Z"}
DigitChars == {"0", "1", "2", "3", "4", "5", "6", "7", "8", "9"}
SpaceChars == {" ", "\t", "\r", "\n"}

(***************************************************************************)
(* IResult<&str, T>.  Ok((rest, val)) or Err(Err::Error(Error{input,code})) *)
(* in one record shape: for an error, rest is the error's input and code    *)
(* its ErrorKind.                                                           *)
(***************************************************************************)
NoValue == [none |-> TRUE]
Unit == [unit |-> TRUE]
Ok(rest, val) == [ok |-> TRUE, rest |-> rest, val |-> val, code |-> "Ok"]
Error(input, code) == [ok |-> FALSE, rest |-> input, val |-> NoValue, code |-> code]

Drop(s, n) == SubSeq(s, n + 1, Len(s))
Take(s, n) == SubSeq(s, 1, n)

RECURSIVE Concat(_)
Concat(ss) == IF ss = <<>> THEN <<>> ELSE Head(ss) \o Concat(Tail(ss))

(***************************************************************************)
(* The AST of crate::ast, as the parser constructs it: tuple structs with   *)
(* positional fields, wrapped in the Exp enum.                              *)
(***************************************************************************)
Exp(variant, node) == [exp |-> variant, node |-> node]
Var(name) == [var |-> name]
Int(value) == [int |-> value]
Bool(value) == [bool |-> value]
Str(value) == [str |-> value]
Let(l, m, r) == [f0 |-> l, f1 |-> m, f2 |-> r]
Select(l, r) == [f0 |-> l, f1 |-> r]
Where(l, r) == [f0 |-> l, f1 |-> r]
Union(l, r) == [f0 |-> l, f1 |-> r]
Difference(l, r) == [f0 |-> l, f1 |-> r]
Product(l, r) == [f0 |-> l, f1 |-> r]
Table(l, r) == [f0 |-> l, f1 |-> r]
Row(l, r) == [f0 |-> l, f1 |-> r]
Cell(l, r) == [f0 |-> l, f1 |-> r]
Equals(l, r) == [f0 |-> l, f1 |-> r]
Or(l, r) == [f0 |-> l, f1 |-> r]
And(l, r) == [f0 |-> l, f1 |-> r]
Not(r) == [f0 |-> r]

(***************************************************************************)
(* nom combinators.                                                         *)
(***************************************************************************)
tag(t, input) ==
    IF Len(input) >= Len(t) /\ Take(input, Len(t)) = t
    THEN Ok(Drop(input, Len(t)), t)
    ELSE Error(input, "Tag")

\* Length of the longest prefix of s whose characters all satisfy "in set"
\* (keep = TRUE) or all satisfy "not in set" (keep = FALSE).
RECURSIVE PrefixLen(_, _, _)
PrefixLen(s, set, keep) ==
    IF s = <<>> \/ ((Head(s) \in set) # keep) THEN 0
    ELSE 1 + PrefixLen(Tail(s), set, keep)

\* split_at_position1_complete: the non-empty longest prefix, or an error.
split_at_position1_complete(input, set, keep, code) ==
    LET n == PrefixLen(input, set, keep) IN
    IF n = 0 THEN Error(input, code) ELSE Ok(Drop(input, n), Take(input, n))

alpha1(input) == split_at_position1_complete(input, AlphaChars, TRUE, "Alpha")
alphanumeric1(input) ==
    split_at_position1_complete(input, AlphaChars \cup DigitChars, TRUE, "AlphaNumeric")
digit1(input) == split_at_position1_complete(input, DigitChars, TRUE, "Digit")
multispace1(input) == split_at_position1_complete(input, SpaceChars, TRUE, "MultiSpace")
is_not(set, input) == split_at_position1_complete(input, set, FALSE, "IsNot")

\* Index (0-based) of the first occurrence of t in s, or Len(s) + 1 if none.
FindSubstring(s, t) ==
    LET hits == {k \in 0..(Len(s) - Len(t)) : SubSeq(s, k + 1, k + Len(t)) = t} IN
    IF hits = {} THEN Len(s) + 1
    ELSE CHOOSE k \in hits : \A j \in hits : k <= j

take_until(t, input) ==
    LET k == FindSubstring(input, t) IN
    IF k > Len(input) THEN Error(input, "TakeUntil")
    ELSE Ok(Drop(input, k), Take(input, k))

fail(input) == Error(input, "Fail")

(***************************************************************************)
(* Parsers as values.  The source passes parsers to combinators as function *)
(* pointers and closures; here such a value is the function's name, or the  *)
(* text of a tag, and apply applies the parser a value stands for (defined  *)
(* after them all).                                                         *)
(***************************************************************************)
\* A parser value: the function named f, or tag(t).
ElemCall(f) == [k |-> "call", f |-> f, t |-> <<>>]
ElemTag(t) == [k |-> "tag", f |-> "", t |-> t]

RECURSIVE apply(_, _)
\* The function named f applied to input.
call(f, input) == apply(ElemCall(f), input)

\* many0: repeat until a recoverable error; an element that succeeds without
\* consuming input is an error (nom's guard against an endless loop).
RECURSIVE many0(_, _)
many0(f, input) ==
    LET r == call(f, input) IN
    IF ~r.ok THEN Ok(input, <<>>)
    ELSE IF Len(r.rest) = Len(input) THEN Error(input, "Many0")
    ELSE LET m == many0(f, r.rest) IN
         IF m.ok THEN Ok(m.rest, <<r.val>> \o m.val) ELSE m

(***************************************************************************)
(* Lexical primitives (parse.rs lines 190-220 and 283-300).                 *)
(***************************************************************************)
T_true == <<"t", "r", "u", "e">>
T_false == <<"f", "a", "l", "s", "e">>

DigitVal(c) ==
    CASE c = "0" -> 0 [] c = "1" -> 1 [] c = "2" -> 2 [] c = "3" -> 3 [] c = "4" -> 4
      [] c = "5" -> 5 [] c = "6" -> 6 [] c = "7" -> 7 [] c = "8" -> 8 [] c = "9" -> 9

RECURSIVE StripZeros(_)
StripZeros(ds) ==
    IF Len(ds) > 1 /\ Head(ds) = "0" THEN StripZeros(Tail(ds)) ELSE ds

\* Lexicographic "greater than" on digit strings of equal length.
RECURSIVE DigitsGreater(_, _)
DigitsGreater(a, b) ==
    IF a = <<>> THEN FALSE
    ELSE IF DigitVal(Head(a)) # DigitVal(Head(b)) THEN DigitVal(Head(a)) > DigitVal(Head(b))
    ELSE DigitsGreater(Tail(a), Tail(b))

I64MaxDigits == <<"9","2","2","3","3","7","2","0","3","6","8","5","4","7","7","5","8","0","7">>
I64MinDigits == <<"9","2","2","3","3","7","2","0","3","6","8","5","4","7","7","5","8","0","8">>

\* to_int: str::parse::<i64>.  The value is kept as sign and magnitude (the
\* decimal digits without leading zeros), which is exact over the whole i64
\* range; a numeral outside that range is a ParseIntError.
to_int(s) ==
    LET neg == Head(s) = "-"
        mag == StripZeros(IF neg THEN Tail(s) ELSE s)
        lim == IF neg THEN I64MinDigits ELSE I64MaxDigits
        overflow == Len(mag) > Len(lim) \/ (Len(mag) = Len(lim) /\ DigitsGreater(mag, lim))
    IN IF overflow THEN [ok |-> FALSE, val |-> NoValue]
       ELSE [ok |-> TRUE, val |-> Int([neg |-> neg /\ mag # <<"0">>, mag |-> mag])]

\* map_res(recognize(pair(opt(tag("-")), digit1)), to_int): a failed
\* conversion is an error at the start of the numeral.
parse_int(input) ==
    LET m == tag(<<"-">>, input)
        d == digit1(IF m.ok THEN m.rest ELSE input)
        c == to_int(Take(input, Len(input) - Len(d.rest)))
    IN IF ~d.ok THEN d
       ELSE IF c.ok THEN Ok(d.rest, c.val) ELSE Error(input, "MapRes")

\* alt((value(Bool(true), tag("true")), value(Bool(false), tag("false"))))
parse_bool(input) ==
    LET t == tag(T_true, input)
        f == tag(T_false, input)
    IN IF t.ok THEN Ok(t.rest, Bool(TRUE))
       ELSE IF f.ok THEN Ok(f.rest, Bool(FALSE))
       ELSE f

\* is_not("'"), the element of the many0 of parse_str.
str_part(input) == is_not({"'"}, input)

\* map(tuple((tag("'"), many0(is_not("'")), tag("'"))), |(_, s, _)| Str(s.concat()))
parse_str(input) ==
    LET o == tag(<<"'">>, input)
        b == many0("str_part", o.rest)
        c == tag(<<"'">>, b.rest)
    IN IF ~o.ok THEN o
       ELSE IF ~b.ok THEN b
       ELSE IF ~c.ok THEN c
       ELSE Ok(c.rest, Str(Concat(b.val)))

\* alt((alphanumeric1, tag("_"))), the element of the many0 of parse_var.
ident_part(input) ==
    LET a == alphanumeric1(input) IN IF a.ok THEN a ELSE tag(<<"_">>, input)

\* map(recognize(pair(alt((alpha1, tag("_"))), many0(...))), Var)
parse_var(input) ==
    LET a == alpha1(input)
        h == IF a.ok THEN a ELSE tag(<<"_">>, input)
        t == many0("ident_part", h.rest)
    IN IF ~h.ok THEN h
       ELSE IF ~t.ok THEN t
       ELSE Ok(t.rest, Var(Take(input, Len(input) - Len(t.rest))))

\* value((), multispace1)
whitespace(input) ==
    LET r == multispace1(input) IN IF r.ok THEN Ok(r.rest, Unit) ELSE r

\* value((), pair(tag("--"), is_not("\n")))
line_comment(input) ==
    LET d == tag(<<"-", "-">>, input)
        b == is_not({"\n"}, d.rest)
    IN IF ~d.ok THEN d
       ELSE IF ~b.ok THEN b
       ELSE Ok(b.rest, Unit)

\* Mutant of multi_line_comment: a block comment with no closing "*/" runs to
\* the end of the input.
multi_line_comment_to_end(input) ==
    LET o == tag(<<"/", "*">>, input)
        b == take_until(<<"*", "/">>, o.rest)
        c == tag(<<"*", "/">>, b.rest)
    IN IF ~o.ok THEN o
       ELSE IF ~b.ok THEN Ok(<<>>, Unit)
       ELSE IF ~c.ok THEN c
       ELSE Ok(c.rest, Unit)

\* value((), tuple((tag("/*"), take_until("*/"), tag("*/"))))
multi_line_comment(input) ==
    LET o == tag(<<"/", "*">>, input)
        b == take_until(<<"*", "/">>, o.rest)
        c == tag(<<"*", "/">>, b.rest)
    IN IF ~o.ok THEN o
       ELSE IF ~b.ok THEN b
       ELSE IF ~c.ok THEN c
       ELSE Ok(c.rest, Unit)

\* alt((whitespace, line_comment, multi_line_comment)), the element of the
\* many0 of junk.
junk_item(input) ==
    LET w == call("whitespace", input)
        l == call("line_comment", input)
    IN IF w.ok THEN w ELSE IF l.ok THEN l ELSE call("multi_line_comment", input)

\* value((), many0(alt((whitespace, line_comment, multi_line_comment))))
junk(input) ==
    LET r == many0("junk_item", input) IN IF r.ok THEN Ok(r.rest, Unit) ELSE r

(***************************************************************************)
(* Generic operator combinators (parse.rs lines 222-281).  Each is          *)
(* alt((map(tuple((...)), constructor), parse_next)): when any element of   *)
(* the tuple reports an error, parse_next is applied to the original input. *)
(* A constructor is named by the variant it builds.                         *)
(***************************************************************************)
construct3(constructor, l, m, r) ==
    CASE constructor = "Let" -> Exp("Let", Let(l, m, r))

construct2(constructor, l, r) ==
    CASE constructor = "vars" -> <<l>> \o r
      [] constructor = "Select" -> Exp("Select", Select(l, r))
      [] constructor = "Where" -> Exp("Where", Where(l, r))
      [] constructor = "Union" -> Exp("Union", Union(l, r))
      [] constructor = "Difference" -> Exp("Difference", Difference(l, r))
      [] constructor = "Product" -> Exp("Product", Product(l, r))
      [] constructor = "Table" -> Exp("Table", Table(l, r))
      [] constructor = "Row" -> Exp("Row", Row(l, r))
      [] constructor = "Cell" -> Exp("Cell", Cell(l, r))
      [] constructor = "Equals" -> Exp("Equals", Equals(l, r))
      [] constructor = "Or" -> Exp("Or", Or(l, r))
      [] constructor = "And" -> Exp("And", And(l, r))

construct1(constructor, r) ==
    CASE constructor = "Not" -> Exp("Not", Not(r))

\* tuple((parse_left, junk, tag(op_left), junk, parse_middle, junk,
\*        tag(op_right), junk, parse_right))
ternary_op_tuple(parse_left, op_left, parse_middle, op_right, parse_right) ==
    <<ElemCall(parse_left), ElemCall("junk"), ElemTag(op_left), ElemCall("junk"),
      ElemCall(parse_middle), ElemCall("junk"), ElemTag(op_right), ElemCall("junk"),
      ElemCall(parse_right)>>

parse_ternary_op(input, constructor, parse_left, op_left, parse_middle, op_right, parse_right, parse_next) ==
    LET ps == ternary_op_tuple(parse_left, op_left, parse_middle, op_right, parse_right)
        r1 == apply(ps[1], input)
        r2 == apply(ps[2], r1.rest)
        r3 == apply(ps[3], r2.rest)
        r4 == apply(ps[4], r3.rest)
        r5 == apply(ps[5], r4.rest)
        r6 == apply(ps[6], r5.rest)
        r7 == apply(ps[7], r6.rest)
        r8 == apply(ps[8], r7.rest)
        r9 == apply(ps[9], r8.rest)
    IN IF r1.ok /\ r2.ok /\ r3.ok /\ r4.ok /\ r5.ok /\ r6.ok /\ r7.ok /\ r8.ok /\ r9.ok
       THEN Ok(r9.rest, construct3(constructor, r1.val, r5.val, r9.val))
       ELSE apply(ElemCall(parse_next), input)

\* tuple((parse_left, junk, tag(op), junk, parse_right))
binary_op_tuple(parse_left, op, parse_right) ==
    <<ElemCall(parse_left), ElemCall("junk"), ElemTag(op), ElemCall("junk"),
      ElemCall(parse_right)>>

\* Mutant of parse_binary_op: once the operator token has matched, a failing
\* right operand fails the rule (no fall-through to parse_next).
parse_binary_op_committed(input, constructor, parse_left, op, parse_right, parse_next) ==
    LET ps == binary_op_tuple(parse_left, op, parse_right)
        r1 == apply(ps[1], input)
        r2 == apply(ps[2], r1.rest)
        r3 == apply(ps[3], r2.rest)
        r4 == apply(ps[4], r3.rest)
        r5 == apply(ps[5], r4.rest)
    IN IF r1.ok /\ r2.ok /\ r3.ok /\ r4.ok
       THEN IF r5.ok THEN Ok(r5.rest, construct2(constructor, r1.val, r5.val)) ELSE r5
       ELSE apply(ElemCall(parse_next), input)

parse_binary_op(input, constructor, parse_left, op, parse_right, parse_next) ==
    LET ps == binary_op_tuple(parse_left, op, parse_right)
        r1 == apply(ps[1], input)
        r2 == apply(ps[2], r1.rest)
        r3 == apply(ps[3], r2.rest)
        r4 == apply(ps[4], r3.rest)
        r5 == apply(ps[5], r4.rest)
    IN IF r1.ok /\ r2.ok /\ r3.ok /\ r4.ok /\ r5.ok
       THEN Ok(r5.rest, construct2(constructor, r1.val, r5.val))
       ELSE apply(ElemCall(parse_next), input)

\* tuple((tag(op), junk, parse_right))
unary_op_tuple(op, parse_right) == <<ElemTag(op), ElemCall("junk"), ElemCall(parse_right)>>

parse_unary_op(input, constructor, op, parse_right, parse_next) ==
    LET ps == unary_op_tuple(op, parse_right)
        r1 == apply(ps[1], input)
        r2 == apply(ps[2], r1.rest)
        r3 == apply(ps[3], r2.rest)
    IN IF r1.ok /\ r2.ok /\ r3.ok
       THEN Ok(r3.rest, construct1(constructor, r3.val))
       ELSE apply(ElemCall(parse_next), input)

(***************************************************************************)
(* The entry point and the precedence cascade (parse.rs lines 12-188).      *)
(***************************************************************************)
\* tuple((junk, parse_let, junk))
parse_exp_tuple == <<ElemCall("junk"), ElemCall("parse_let"), ElemCall("junk")>>

\* Mutant of parse_exp: the junk after the expression is not skipped.
parse_exp_no_trailing_junk(input) ==
    LET ps == parse_exp_tuple
        r1 == apply(ps[1], input)
        r2 == apply(ps[2], r1.rest)
    IN IF r1.ok /\ r2.ok THEN Ok(r2.rest, r2.val)
       ELSE IF ~r1.ok THEN r1
       ELSE r2

\* map(tuple((junk, parse_let, junk)), |(_, exp, _)| exp)
parse_exp(input) ==
    LET ps == parse_exp_tuple
        r1 == apply(ps[1], input)
        r2 == apply(ps[2], r1.rest)
        r3 == apply(ps[3], r2.rest)
    IN IF r1.ok /\ r2.ok /\ r3.ok THEN Ok(r3.rest, r2.val)
       ELSE IF ~r1.ok THEN r1
       ELSE IF ~r2.ok THEN r2
       ELSE r3

parse_let_tight_bound(input) ==
    parse_ternary_op(input, "Let", "parse_var", <<"=">>, "parse_select", <<>>, "parse_let",
                     "parse_select")

parse_let(input) ==
    parse_ternary_op(input, "Let", "parse_var", <<"=">>, "parse_let", <<>>, "parse_let",
                     "parse_select")

\* The first alternative of parse_select_vars (the closure at lines 32-41).
parse_select_vars_list(input) ==
    parse_binary_op(input, "vars", "parse_var", <<",">>, "parse_select_vars", "fail")

parse_select_vars_single(input) ==
    LET single == parse_var(input)
    IN IF single.ok THEN Ok(single.rest, <<single.val>>) ELSE single

\* alt((the list closure, map(parse_var, |var| vec![var])))
parse_select_vars(input) ==
    LET list == call("parse_select_vars_list", input)
        single == call("parse_var", input)
    IN IF list.ok THEN list
       ELSE IF single.ok THEN Ok(single.rest, <<single.val>>)
       ELSE single

parse_select(input) ==
    parse_binary_op(input, "Select", "parse_select_vars", <<"<", "-">>, "parse_select",
                    "parse_where")

parse_where(input) ==
    parse_binary_op(input, "Where", "parse_union", <<"?">>, "parse_where", "parse_union")

parse_union(input) ==
    parse_binary_op(input, "Union", "parse_difference", <<"+">>, "parse_union",
                    "parse_difference")

parse_difference_flat(input) ==
    parse_binary_op(input, "Difference", "parse_product", <<"-">>, "parse_product", "parse_product")

parse_difference(input) ==
    parse_binary_op(input, "Difference", "parse_product", <<"-">>, "parse_difference",
                    "parse_product")

parse_product(input) ==
    parse_binary_op(input, "Product", "parse_table", <<"*">>, "parse_product", "parse_table")

parse_table(input) ==
    parse_binary_op(input, "Table", "parse_row", <<";">>, "parse_table", "parse_row")

parse_row(input) ==
    parse_binary_op(input, "Row", "parse_cell", <<",">>, "parse_row", "parse_cell")

parse_cell(input) ==
    parse_binary_op(input, "Cell", "parse_var", <<":">>, "parse_cell", "parse_equals")

parse_equals(input) ==
    parse_binary_op(input, "Equals", "parse_or", <<"=", "=">>, "parse_equals", "parse_or")

parse_or(input) ==
    parse_binary_op(input, "Or", "parse_and", <<"|">>, "parse_or", "parse_and")

parse_and_loose_right(input) ==
    parse_binary_op(input, "And", "parse_not", <<"&">>, "parse_or", "parse_not")

parse_and(input) ==
    parse_binary_op(input, "And", "parse_not", <<"&">>, "parse_and", "parse_not")

parse_not(input) ==
    parse_unary_op(input, "Not", <<"!">>, "parse_not", "parse_atom")

\* Mutant of parse_atom: the identifier alternative is tried before the
\* boolean one.
parse_atom_var_first(input) ==
    LET p == call("parse_parens", input)
        v == call("parse_var", input)
        b == call("parse_bool", input)
        n == call("parse_int", input)
        s == call("parse_str", input)
    IN IF p.ok THEN p
       ELSE IF v.ok THEN Ok(v.rest, Exp("Var", v.val))
       ELSE IF b.ok THEN Ok(b.rest, Exp("Bool", b.val))
       ELSE IF n.ok THEN Ok(n.rest, Exp("Int", n.val))
       ELSE IF s.ok THEN Ok(s.rest, Exp("Str", s.val))
       ELSE s

\* alt((parse_parens, map(parse_bool, Exp::Bool), map(parse_int, Exp::Int),
\*      map(parse_str, Exp::Str), map(parse_var, Exp::Var)))
parse_atom(input) ==
    LET p == call("parse_parens", input)
        b == call("parse_bool", input)
        n == call("parse_int", input)
        s == call("parse_str", input)
        v == call("parse_var", input)
    IN IF p.ok THEN p
       ELSE IF b.ok THEN Ok(b.rest, Exp("Bool", b.val))
       ELSE IF n.ok THEN Ok(n.rest, Exp("Int", n.val))
       ELSE IF s.ok THEN Ok(s.rest, Exp("Str", s.val))
       ELSE IF v.ok THEN Ok(v.rest, Exp("Var", v.val))
       ELSE v

\* tuple((tag("("), parse_exp, tag(")")))
parse_parens_tuple == <<ElemTag(<<"(">>), ElemCall("parse_exp"), ElemTag(<<")">>)>>

\* map(tuple((tag("("), parse_exp, tag(")"))), |(_, exp, _)| exp)
parse_parens(input) ==
    LET ps == parse_parens_tuple
        r1 == apply(ps[1], input)
        r2 == apply(ps[2], r1.rest)
        r3 == apply(ps[3], r2.rest)
    IN IF r1.ok /\ r2.ok /\ r3.ok THEN Ok(r3.rest, r2.val)
       ELSE IF ~r1.ok THEN r1
       ELSE IF ~r2.ok THEN r2
       ELSE r3

\* A parser value applied to input: tag(t), or the function of that name.
apply(parser, input) ==
    CASE parser.k = "tag" -> tag(parser.t, input)
      [] parser.f = "junk_item" -> junk_item(input)
      [] parser.f = "parse_atom" -> parse_atom(input)
      [] parser.f = "parse_not" -> parse_not(input)
      [] parser.f = "parse_and" -> parse_and(input)
      [] parser.f = "parse_or" -> parse_or(input)
      [] parser.f = "parse_equals" -> parse_equals(input)
      [] parser.f = "parse_var" -> parse_var(input)
      [] parser.f = "parse_cell" -> parse_cell(input)
      [] parser.f = "parse_row" -> parse_row(input)
      [] parser.f = "parse_table" -> parse_table(input)
      [] parser.f = "parse_product" -> parse_product(input)
      [] parser.f = "parse_difference" -> parse_difference(input)
      [] parser.f = "parse_union" -> parse_union(input)
      [] parser.f = "parse_where" -> parse_where(input)
      [] parser.f = "parse_select" -> parse_select(input)
      [] parser.f = "parse_select_vars" -> parse_select_vars(input)
      [] parser.f = "parse_select_vars_list" -> parse_select_vars_list(input)
      [] parser.f = "parse_let" -> parse_let(input)
      [] parser.f = "parse_exp" -> parse_exp(input)
      [] parser.f = "parse_parens" -> parse_parens(input)
      [] parser.f = "parse_bool" -> parse_bool(input)
      [] parser.f = "parse_int" -> parse_int(input)
      [] parser.f = "parse_str" -> parse_str(input)
      [] parser.f = "ident_part" -> ident_part(input)
      [] parser.f = "str_part" -> str_part(input)
      [] parser.f = "junk" -> junk(input)
      [] parser.f = "whitespace" -> whitespace(input)
      [] parser.f = "line_comment" -> line_comment(input)
      [] parser.f = "multi_line_comment" -> multi_line_comment(input)
      [] parser.f = "fail" -> fail(input)

(***************************************************************************)
(* The unit tests of parse.rs (lines 307-676).                               *)
(***************************************************************************)
Exp_table ==
    Exp("Table", Table(Exp("Row", Row(Exp("Cell", Cell(Var(<<"n", "a", "m", "e">>), Exp("Str", Str(<<"A",
    "l", "i", "c", "e">>)))), Exp("Cell", Cell(Var(<<"i", "d">>), Exp("Int", Int([neg |-> FALSE,
    mag |-> <<"1">>])))))), Exp("Row", Row(Exp("Cell", Cell(Var(<<"n", "a", "m", "e">>), Exp("Str",
    Str(<<"B", "o", "b">>)))), Exp("Cell", Cell(Var(<<"i", "d">>), Exp("Int", Int([neg |-> FALSE,
    mag |-> <<"2">>]))))))))

Exp_program ==
    Exp("Let", Let(Var(<<"S", "t", "a", "f", "f">>), Exp("Table", Table(Exp("Row", Row(Exp("Cell",
    Cell(Var(<<"n", "a", "m", "e">>), Exp("Str", Str(<<"A", "l", "i", "c", "e">>)))), Exp("Cell",
    Cell(Var(<<"i", "d">>), Exp("Int", Int([neg |-> FALSE, mag |-> <<"1">>])))))), Exp("Row", Row(Exp("Cell",
    Cell(Var(<<"n", "a", "m", "e">>), Exp("Str", Str(<<"B", "o", "b">>)))), Exp("Cell", Cell(Var(<<"i",
    "d">>), Exp("Int", Int([neg |-> FALSE, mag |-> <<"2">>])))))))), Exp("Let", Let(Var(<<"b", "o",
    "b">>), Exp("Select", Select(<<Var(<<"n", "a", "m", "e">>)>>, Exp("Where", Where(Exp("Var", Var(<<"S",
    "t", "a", "f", "f">>)), Exp("Equals", Equals(Exp("Var", Var(<<"n", "a", "m", "e">>)), Exp("Str",
    Str(<<"B", "o", "b">>)))))))), Exp("Var", Var(<<"b", "o", "b">>))))))

\* The assertions of the unit tests: the function called, its input and the
\* result the test expects.
TestCases ==
    <<
      \* parse.rs lines 349-365
      [entry |-> "parse_exp",
       input |-> <<"\n", "/", "*", " ", "w", "e", "l", "c", "o", "m", "e", " ", "t", "o", "\n", "m",
                "y", " ", "d", "a", "t", "a", "b", "a", "s", "e", " ", "*", "/", "\n", "\n", "S",
                "t", "a", "f", "f", " ", "=", "\n", " ", " ", "n", "a", "m", "e", ":", " ", "'",
                "A", "l", "i", "c", "e", "'", ",", " ", "i", "d", ":", " ", "1", ";", " ", "-", "-",
                " ", "f", "i", "r", "s", "t", " ", "r", "o", "w", "\n", " ", " ", "n", "a", "m",
                "e", ":", " ", "'", "B", "o", "b", "'", ",", " ", "i", "d", ":", " ", "2", " ", " ",
                " ", " ", "-", "-", " ", "s", "e", "c", "o", "n", "d", " ", "r", "o", "w", "\n",
                "\n", "b", "o", "b", " ", "=", " ", "n", "a", "m", "e", " ", "/", "*", " ", "c",
                "o", "l", "u", "m", "n", "s", ".", ".", ".", " ", "*", "/", " ", "<", "-", " ", "S",
                "t", "a", "f", "f", " ", "?", " ", "n", "a", "m", "e", " ", "=", "=", " ", "'", "B",
                "o", "b", "'", "\n", "\n", "b", "o", "b", "\n">>,
       expect |-> Ok(<<>>, Exp_program)],
      \* parse.rs lines 367-370
      [entry |-> "parse_exp",
       input |-> <<"S", "t", "a", "f", "f", "=", "n", "a", "m", "e", ":", "'", "A", "l", "i", "c",
                "e", "'", ",", "i", "d", ":", "1", ";", "n", "a", "m", "e", ":", "'", "B", "o", "b",
                "'", ",", "i", "d", ":", "2", "b", "o", "b", "=", "n", "a", "m", "e", "<", "-", "S",
                "t", "a", "f", "f", "?", "n", "a", "m", "e", "=", "=", "'", "B", "o", "b", "'", "b",
                "o", "b">>,
       expect |-> Ok(<<>>, Exp_program)],
      \* parse.rs lines 372-390
      [entry |-> "parse_exp",
       input |-> <<"\n", "a", " ", "=", " ", "b", "\n", "c", ",", " ", "d", " ", "<", "-", " ", "e",
                "\n">>,
       expect |-> Ok(<<>>, Exp("Let", Let(Var(<<"a">>), Exp("Var", Var(<<"b">>)), Exp("Select", Select(<<Var(<<"c">>),
                 Var(<<"d">>)>>, Exp("Var", Var(<<"e">>)))))))],
      \* parse.rs lines 392-413
      [entry |-> "parse_exp",
       input |-> <<"\n", "a", " ", "=", "\n", " ", " ", "b", " ", "=", " ", "c", "\n", " ", " ", "d",
                "\n", "e", "\n">>,
       expect |-> Ok(<<>>, Exp("Let", Let(Var(<<"a">>), Exp("Let", Let(Var(<<"b">>), Exp("Var", Var(<<"c">>)),
                 Exp("Var", Var(<<"d">>)))), Exp("Var", Var(<<"e">>)))))],
      \* parse.rs lines 418-430
      [entry |-> "parse_exp",
       input |-> <<"t", "r", "u", "e", " ", "|", " ", "f", "a", "l", "s", "e", " ", "&", " ", "!",
                "t", "r", "u", "e">>,
       expect |-> Ok(<<>>, Exp("Or", Or(Exp("Bool", Bool(TRUE)), Exp("And", And(Exp("Bool", Bool(FALSE)),
                 Exp("Not", Not(Exp("Bool", Bool(TRUE)))))))))],
      \* parse.rs lines 435-445
      [entry |-> "parse_let",
       input |-> <<"x", " ", "=", " ", "t", "r", "u", "e", " ", "f", "a", "l", "s", "e">>,
       expect |-> Ok(<<>>, Exp("Let", Let(Var(<<"x">>), Exp("Bool", Bool(TRUE)), Exp("Bool", Bool(FALSE)))))],
      \* parse.rs lines 446-459
      [entry |-> "parse_let",
       input |-> <<"x", " ", "=", " ", "t", "r", "u", "e", " ", "|", " ", "f", "a", "l", "s", "e",
                " ", "y">>,
       expect |-> Ok(<<>>, Exp("Let", Let(Var(<<"x">>), Exp("Or", Or(Exp("Bool", Bool(TRUE)), Exp("Bool",
                 Bool(FALSE)))), Exp("Var", Var(<<"y">>)))))],
      \* parse.rs lines 465
      [entry |-> "parse_exp",
       input |-> <<"(", "1", ")">>,
       expect |-> Ok(<<>>, Exp("Int", Int([neg |-> FALSE, mag |-> <<"1">>])))],
      \* parse.rs lines 470-479
      [entry |-> "parse_select",
       input |-> <<"x", " ", "<", "-", " ", "t", "r", "u", "e">>,
       expect |-> Ok(<<>>, Exp("Select", Select(<<Var(<<"x">>)>>, Exp("Bool", Bool(TRUE)))))],
      \* parse.rs lines 480-489
      [entry |-> "parse_select",
       input |-> <<"x", ",", " ", "y", " ", "<", "-", " ", "t", "r", "u", "e">>,
       expect |-> Ok(<<>>, Exp("Select", Select(<<Var(<<"x">>), Var(<<"y">>)>>, Exp("Bool", Bool(TRUE)))))],
      \* parse.rs lines 490-503
      [entry |-> "parse_select",
       input |-> <<"x", ",", " ", "y", ",", " ", "z", " ", "<", "-", " ", "t", "r", "u", "e">>,
       expect |-> Ok(<<>>, Exp("Select", Select(<<Var(<<"x">>), Var(<<"y">>), Var(<<"z">>)>>, Exp("Bool",
                 Bool(TRUE)))))],
      \* parse.rs lines 508-535
      [entry |-> "parse_table",
       input |-> <<"n", "a", "m", "e", ":", " ", "'", "A", "l", "i", "c", "e", "'", ",", " ", "i",
                "d", ":", " ", "1", ";", " ", "n", "a", "m", "e", ":", " ", "'", "B", "o", "b", "'",
                ",", " ", "i", "d", ":", " ", "2">>,
       expect |-> Ok(<<>>, Exp_table)],
      \* parse.rs lines 540-549
      [entry |-> "parse_or",
       input |-> <<"t", "r", "u", "e", " ", "|", " ", "f", "a", "l", "s", "e">>,
       expect |-> Ok(<<>>, Exp("Or", Or(Exp("Bool", Bool(TRUE)), Exp("Bool", Bool(FALSE)))))],
      \* parse.rs lines 550-562
      [entry |-> "parse_or",
       input |-> <<"t", "r", "u", "e", " ", "&", " ", "f", "a", "l", "s", "e", " ", "|", " ", "!",
                "t", "r", "u", "e">>,
       expect |-> Ok(<<>>, Exp("Or", Or(Exp("And", And(Exp("Bool", Bool(TRUE)), Exp("Bool", Bool(FALSE)))),
                 Exp("Not", Not(Exp("Bool", Bool(TRUE)))))))],
      \* parse.rs lines 567-576
      [entry |-> "parse_and",
       input |-> <<"t", "r", "u", "e", " ", "&", " ", "f", "a", "l", "s", "e">>,
       expect |-> Ok(<<>>, Exp("And", And(Exp("Bool", Bool(TRUE)), Exp("Bool", Bool(FALSE)))))],
      \* parse.rs lines 577-589
      [entry |-> "parse_and",
       input |-> <<"t", "r", "u", "e", " ", "&", " ", "f", "a", "l", "s", "e", " ", "&", " ", "!",
                "t", "r", "u", "e">>,
       expect |-> Ok(<<>>, Exp("And", And(Exp("Bool", Bool(TRUE)), Exp("And", And(Exp("Bool", Bool(FALSE)),
                 Exp("Not", Not(Exp("Bool", Bool(TRUE)))))))))],
      \* parse.rs lines 594-597
      [entry |-> "parse_not",
       input |-> <<"!", " ", "t", "r", "u", "e">>,
       expect |-> Ok(<<>>, Exp("Not", Not(Exp("Bool", Bool(TRUE)))))],
      \* parse.rs lines 598-601
      [entry |-> "parse_not",
       input |-> <<"!", "x">>,
       expect |-> Ok(<<>>, Exp("Not", Not(Exp("Var", Var(<<"x">>)))))],
      \* parse.rs lines 602-610
      [entry |-> "parse_not",
       input |-> <<"!", "!", "x">>,
       expect |-> Ok(<<>>, Exp("Not", Not(Exp("Not", Not(Exp("Var", Var(<<"x">>)))))))],
      \* parse.rs lines 615
      [entry |-> "parse_atom",
       input |-> <<"t", "r", "u", "e">>,
       expect |-> Ok(<<>>, Exp("Bool", Bool(TRUE)))],
      \* parse.rs lines 616
      [entry |-> "parse_atom",
       input |-> <<"1", "2", "3">>,
       expect |-> Ok(<<>>, Exp("Int", Int([neg |-> FALSE, mag |-> <<"1", "2", "3">>])))],
      \* parse.rs lines 617-620
      [entry |-> "parse_atom",
       input |-> <<"'", "h", "e", "l", "l", "o", "'">>,
       expect |-> Ok(<<>>, Exp("Str", Str(<<"h", "e", "l", "l", "o">>)))],
      \* parse.rs lines 621
      [entry |-> "parse_atom",
       input |-> <<"x">>,
       expect |-> Ok(<<>>, Exp("Var", Var(<<"x">>)))],
      \* parse.rs lines 626
      [entry |-> "parse_bool",
       input |-> <<"t", "r", "u", "e">>,
       expect |-> Ok(<<>>, Bool(TRUE))],
      \* parse.rs lines 627
      [entry |-> "parse_bool",
       input |-> <<"f", "a", "l", "s", "e">>,
       expect |-> Ok(<<>>, Bool(FALSE))],
      \* parse.rs lines 632
      [entry |-> "parse_int",
       input |-> <<"1", "2", "3">>,
       expect |-> Ok(<<>>, Int([neg |-> FALSE, mag |-> <<"1", "2", "3">>]))],
      \* parse.rs lines 633
      [entry |-> "parse_int",
       input |-> <<"-", "4", "2", "h", "e", "l", "l", "o">>,
       expect |-> Ok(<<"h", "e", "l", "l", "o">>, Int([neg |-> TRUE, mag |-> <<"4", "2">>]))],
      \* parse.rs lines 638
      [entry |-> "parse_str",
       input |-> <<"'", "'">>,
       expect |-> Ok(<<>>, Str(<<>>))],
      \* parse.rs lines 639
      [entry |-> "parse_str",
       input |-> <<"'", "h", "e", "l", "l", "o", "'">>,
       expect |-> Ok(<<>>, Str(<<"h", "e", "l", "l", "o">>))],
      \* parse.rs lines 640-643
      [entry |-> "parse_str",
       input |-> <<"'", "h", "e", "l", "l", "o", "'", "w", "o", "r", "l", "d">>,
       expect |-> Ok(<<"w", "o", "r", "l", "d">>, Str(<<"h", "e", "l", "l", "o">>))],
      \* parse.rs lines 648
      [entry |-> "parse_var",
       input |-> <<"x">>,
       expect |-> Ok(<<>>, Var(<<"x">>))],
      \* parse.rs lines 649
      [entry |-> "parse_var",
       input |-> <<"_", "x", "_", "1">>,
       expect |-> Ok(<<>>, Var(<<"_", "x", "_", "1">>))],
      \* parse.rs lines 654
      [entry |-> "junk",
       input |-> <<" ">>,
       expect |-> Ok(<<>>, Unit)],
      \* parse.rs lines 655
      [entry |-> "junk",
       input |-> <<"\n">>,
       expect |-> Ok(<<>>, Unit)],
      \* parse.rs lines 660
      [entry |-> "line_comment",
       input |-> <<"-", "-", " ", "h", "e", "l", "l", "o">>,
       expect |-> Ok(<<>>, Unit)],
      \* parse.rs lines 661
      [entry |-> "line_comment",
       input |-> <<"-", "-", " ", "h", "e", "l", "l", "o", "\n">>,
       expect |-> Ok(<<"\n">>, Unit)],
      \* parse.rs lines 662
      [entry |-> "line_comment",
       input |-> <<"-", "-", " ", "h", "e", "l", "l", "o", "\n", "w", "o", "r", "l", "d">>,
       expect |-> Ok(<<"\n", "w", "o", "r", "l", "d">>, Unit)],
      \* parse.rs lines 667
      [entry |-> "multi_line_comment",
       input |-> <<"/", "*", " ", "h", "e", "l", "l", "o", " ", "*", "/">>,
       expect |-> Ok(<<>>, Unit)],
      \* parse.rs lines 668
      [entry |-> "multi_line_comment",
       input |-> <<"/", "*", " ", "h", "e", "l", "l", "o", " ", "*", "/", "w", "o", "r", "l", "d">>,
       expect |-> Ok(<<"w", "o", "r", "l", "d">>, Unit)],
      \* parse.rs lines 669-675
      [entry |-> "multi_line_comment",
       input |-> <<"/", "*", " ", "h", "e", "l", "l", "o">>,
       expect |-> Error(<<" ", "h", "e", "l", "l", "o">>, "TakeUntil")]
    >>

(***************************************************************************)
(* The state machine: a call of one of the parse functions on a text.       *)
(***************************************************************************)
\* entry, input: the function under test and its argument; called, result:
\* whether it has returned, and what.  stack, ret: the frames of the calls in
\* progress and the value the last finished call hands to its caller, used
\* only when the call is run step by step (SpecRun).
VARIABLES entry, input, called, result, stack, ret
vars == <<entry, input, called, result, stack, ret>>

NoRet == [set |-> FALSE, ok |-> FALSE, cur |-> 0]

\* Every function on one small text.
SmokeCases ==
    { [entry |-> e, input |-> <<"a", " ", "b">>] :
        e \in {"parse_exp", "parse_let", "parse_select_vars", "parse_select_vars_list",
               "parse_select", "parse_where", "parse_union", "parse_difference",
               "parse_product", "parse_table", "parse_row", "parse_cell", "parse_equals",
               "parse_or", "parse_and", "parse_not", "parse_atom", "parse_parens",
               "parse_bool", "parse_int", "parse_str", "parse_var", "junk", "whitespace",
               "line_comment", "multi_line_comment"} }

Returns(r) ==
    /\ ~called
    /\ called' = TRUE
    /\ result' = r
    /\ UNCHANGED <<entry, input, stack, ret>>

Call_parse_exp == entry = "parse_exp" /\ Returns(call("parse_exp", input))
Call_parse_let == entry = "parse_let" /\ Returns(call("parse_let", input))
Call_parse_select_vars == entry = "parse_select_vars" /\ Returns(call("parse_select_vars", input))
Call_parse_select_vars_list == entry = "parse_select_vars_list" /\ Returns(call("parse_select_vars_list", input))
Call_parse_select == entry = "parse_select" /\ Returns(call("parse_select", input))
Call_parse_where == entry = "parse_where" /\ Returns(call("parse_where", input))
Call_parse_union == entry = "parse_union" /\ Returns(call("parse_union", input))
Call_parse_difference == entry = "parse_difference" /\ Returns(call("parse_difference", input))
Call_parse_product == entry = "parse_product" /\ Returns(call("parse_product", input))
Call_parse_table == entry = "parse_table" /\ Returns(call("parse_table", input))
Call_parse_row == entry = "parse_row" /\ Returns(call("parse_row", input))
Call_parse_cell == entry = "parse_cell" /\ Returns(call("parse_cell", input))
Call_parse_equals == entry = "parse_equals" /\ Returns(call("parse_equals", input))
Call_parse_or == entry = "parse_or" /\ Returns(call("parse_or", input))
Call_parse_and == entry = "parse_and" /\ Returns(call("parse_and", input))
Call_parse_not == entry = "parse_not" /\ Returns(call("parse_not", input))
Call_parse_atom == entry = "parse_atom" /\ Returns(call("parse_atom", input))
Call_parse_parens == entry = "parse_parens" /\ Returns(call("parse_parens", input))
Call_parse_bool == entry = "parse_bool" /\ Returns(call("parse_bool", input))
Call_parse_int == entry = "parse_int" /\ Returns(call("parse_int", input))
Call_parse_str == entry = "parse_str" /\ Returns(call("parse_str", input))
Call_parse_var == entry = "parse_var" /\ Returns(call("parse_var", input))
Call_junk == entry = "junk" /\ Returns(call("junk", input))
Call_whitespace == entry = "whitespace" /\ Returns(call("whitespace", input))
Call_line_comment == entry = "line_comment" /\ Returns(call("line_comment", input))
Call_multi_line_comment == entry = "multi_line_comment" /\ Returns(call("multi_line_comment", input))

Next ==
    \/ Call_parse_exp
    \/ Call_parse_let
    \/ Call_parse_select_vars
    \/ Call_parse_select_vars_list
    \/ Call_parse_select
    \/ Call_parse_where
    \/ Call_parse_union
    \/ Call_parse_difference
    \/ Call_parse_product
    \/ Call_parse_table
    \/ Call_parse_row
    \/ Call_parse_cell
    \/ Call_parse_equals
    \/ Call_parse_or
    \/ Call_parse_and
    \/ Call_parse_not
    \/ Call_parse_atom
    \/ Call_parse_parens
    \/ Call_parse_bool
    \/ Call_parse_int
    \/ Call_parse_str
    \/ Call_parse_var
    \/ Call_junk
    \/ Call_whitespace
    \/ Call_line_comment
    \/ Call_multi_line_comment

\* Every assertion of the unit tests holds of the model.
TestsPass ==
    called =>
        \A k \in DOMAIN TestCases :
            (TestCases[k].entry = entry /\ TestCases[k].input = input)
                => result = TestCases[k].expect

(***************************************************************************)
(* Families of texts.  A text is a concatenation of pieces (tokens, junk).  *)
(***************************************************************************)
\* All sequences of at most n elements of S.
RECURSIVE SeqsUpTo(_, _)
SeqsUpTo(S, n) ==
    IF n = 0 THEN {<<>>}
    ELSE LET shorter == SeqsUpTo(S, n - 1) IN
         shorter \cup {Append(q, e) : q \in {t \in shorter : Len(t) = n - 1}, e \in S}

Texts(pieces, n) == {Concat(q) : q \in SeqsUpTo(pieces, n)}

Cases(entries, texts) == {[entry |-> e, input |-> i] : e \in entries, i \in texts}

InitFrom(cases) ==
    /\ \E c \in SmokeCases \cup cases : entry = c.entry /\ input = c.input
    /\ called = FALSE
    /\ result = NoValue
    /\ stack = <<>>
    /\ ret = NoRet

(***************************************************************************)
(* SpecTests: every function on the input of each of its unit tests.        *)
(***************************************************************************)
TestInputs ==
    {[entry |-> TestCases[k].entry, input |-> TestCases[k].input] : k \in DOMAIN TestCases}

InitTests == InitFrom(TestInputs)
SpecTests == InitTests /\ [][Next]_vars

StartsWith(s, t) == Len(s) >= Len(t) /\ Take(s, Len(t)) = t
IsSuffix(t, s) == Len(t) <= Len(s) /\ Drop(s, Len(s) - Len(t)) = t
Contains(s, t) == FindSubstring(s, t) <= Len(s)

(***************************************************************************)
(* Spec: short texts of expression, operator and comment pieces given to    *)
(* the entry point and to the junk skipper, and texts of literal pieces     *)
(* given to the atom rule.                                                  *)
(***************************************************************************)
MaxPieces == 3

GPieces == { <<"a">>, <<" ">>, <<"&">>, <<"/", "*">>, <<"*", "/">> }
APieces == { T_true, T_false, <<"a">>, <<"1">>, <<"_">>, <<" ">> }

GCases ==
    Cases({"parse_exp", "junk", "multi_line_comment"}, Texts(GPieces, MaxPieces))
        \cup Cases({"parse_atom", "parse_bool", "parse_var"}, Texts(APieces, MaxPieces))

Init == InitFrom(GCases)
Spec == Init /\ [][Next]_vars

\* C1 (as claimed): parse_exp requires the input to be fully consumed; it never
\* returns a success that carries a non-empty remainder.
C1_NoSuccessWithRemainder ==
    (called /\ entry = "parse_exp" /\ result.ok) => result.rest = <<>>

\* C1 (amended): parse_exp does not require full consumption.  It succeeds
\* exactly when a Let-level expression parses after the leading junk, with
\* that expression as its value, and returns whatever follows the trailing
\* junk as the remainder: a suffix of the input at which junk consumes nothing.
C1_RemainderIsReturned ==
    (called /\ entry = "parse_exp") =>
        LET e == parse_let(junk(input).rest) IN
        /\ result.ok = e.ok
        /\ result.ok =>
            /\ result.val = e.val
            /\ IsSuffix(result.rest, input)
            /\ IsSuffix(result.rest, e.rest)
            /\ junk(result.rest) = Ok(result.rest, Unit)

\* A success of parse_exp that leaves non-junk text behind a skipped space.
C1_Witness ==
    /\ called /\ entry = "parse_exp" /\ result.ok
    /\ result.rest # <<>>
    /\ Len(result.rest) + 1 < Len(input)
    /\ input[Len(input) - Len(result.rest)] = " "

\* The text starts with "/*" and no "*/" follows.
StartsUnterminated(s) == StartsWith(s, <<"/", "*">>) /\ ~Contains(Drop(s, 2), <<"*", "/">>)

\* Index (0-based) of the first "/*" of s when no "*/" follows it, so that
\* it opens a block comment that is never closed; Len(s) + 1 otherwise.
FirstUnterminated(s) ==
    LET hits == {k \in 0..Len(s) : StartsWith(Drop(s, k), <<"/", "*">>)}
        k == CHOOSE k \in hits : \A j \in hits : k <= j
    IN IF hits # {} /\ StartsUnterminated(Drop(s, k)) THEN k ELSE Len(s) + 1

\* The unterminated "/*" stands at a token boundary: no string literal and no
\* line comment opens before it.
UnterminatedAtBoundary(s) ==
    LET k == FirstUnterminated(s) IN
    /\ k <= Len(s)
    /\ ~Contains(Take(s, k + 1), <<"-", "-">>)
    /\ ~Contains(Take(s, k), <<"'">>)

\* C4 (as claimed): at an unterminated "/*" the junk skipper fails, and
\* parse_exp fails on every text with an unterminated "/*" at a token boundary.
C4_UnterminatedIsHardFailure ==
    called =>
        /\ (entry = "junk" /\ StartsUnterminated(input)) => ~result.ok
        /\ (entry = "parse_exp" /\ UnterminatedAtBoundary(input)) => ~result.ok

\* C4 (amended): an unterminated "/*" is a recoverable error of
\* multi_line_comment only.  The junk skipper applied there succeeds with the
\* empty run and consumes nothing.  parse_exp fails when the text, after its
\* leading junk, starts with the unterminated "/*"; otherwise a success of
\* parse_exp leaves the "/*" and all that follows it in the remainder.
C4_UnterminatedIsRecoverable ==
    called =>
        /\ (entry = "multi_line_comment" /\ StartsUnterminated(input))
               => result = Error(Drop(input, 2), "TakeUntil")
        /\ (entry = "junk" /\ StartsUnterminated(input)) => result = Ok(input, Unit)
        /\ (entry = "parse_exp" /\ UnterminatedAtBoundary(input)) =>
               IF StartsUnterminated(junk(input).rest)
               THEN ~result.ok
               ELSE result.ok => Len(result.rest) >= Len(input) - FirstUnterminated(input)

\* parse_exp succeeds on a complete expression followed by an unterminated "/*".
C4_Witness ==
    /\ called /\ entry = "parse_exp" /\ result.ok
    /\ UnterminatedAtBoundary(input)
    /\ StartsUnterminated(result.rest)
    /\ result.val = Exp("Var", Var(<<"a">>))

\* C9: at the atom rule a text that starts with "true" or "false" yields the
\* boolean literal and leaves every following character, identifier
\* characters included, as the remainder; it never yields a Var.
C9_BoolPrefix ==
    (called /\ entry = "parse_atom") =>
        /\ StartsWith(input, T_true)
               => result = Ok(Drop(input, Len(T_true)), Exp("Bool", Bool(TRUE)))
        /\ StartsWith(input, T_false)
               => result = Ok(Drop(input, Len(T_false)), Exp("Bool", Bool(FALSE)))

\* "true" immediately followed by identifier characters, given to parse_atom.
C9_Witness ==
    /\ called /\ entry = "parse_atom"
    /\ StartsWith(input, T_true)
    /\ Len(input) > Len(T_true)
    /\ input[Len(T_true) + 1] \in AlphaChars
    /\ result.ok /\ result.rest = Drop(input, Len(T_true))

(***************************************************************************)
(* SpecOp: every rule built by parse_binary_op or parse_ternary_op, given   *)
(* short texts made of an operand, a space and the rule's own operator.     *)
(***************************************************************************)
MaxOpPieces == 3

OpRules ==
    {"parse_let", "parse_select", "parse_select_vars_list", "parse_where", "parse_union",
     "parse_difference", "parse_product", "parse_table", "parse_row", "parse_cell",
     "parse_equals", "parse_or", "parse_and"}

\* The parameters each rule passes to its combinator (parse.rs lines 16-164):
\* constructor, left operand, operator token, right operand (for Let the middle one, the
\* right one being parse_let after the empty token) and parse_next.
RuleParams(e) ==
    CASE e = "parse_let" ->
           [ctor |-> "Let", left |-> "parse_var", op |-> <<"=">>, right |-> "parse_let", next |-> "parse_select"]
      [] e = "parse_select" ->
           [ctor |-> "Select", left |-> "parse_select_vars", op |-> <<"<", "-">>, right |-> "parse_select",
            next |-> "parse_where"]
      [] e = "parse_select_vars_list" ->
           [ctor |-> "vars", left |-> "parse_var", op |-> <<",">>, right |-> "parse_select_vars", next |-> "fail"]
      [] e = "parse_where" ->
           [ctor |-> "Where", left |-> "parse_union", op |-> <<"?">>, right |-> "parse_where", next |-> "parse_union"]
      [] e = "parse_union" ->
           [ctor |-> "Union", left |-> "parse_difference", op |-> <<"+">>, right |-> "parse_union",
            next |-> "parse_difference"]
      [] e = "parse_difference" ->
           [ctor |-> "Difference", left |-> "parse_product", op |-> <<"-">>, right |-> "parse_difference",
            next |-> "parse_product"]
      [] e = "parse_product" ->
           [ctor |-> "Product", left |-> "parse_table", op |-> <<"*">>, right |-> "parse_product",
            next |-> "parse_table"]
      [] e = "parse_table" ->
           [ctor |-> "Table", left |-> "parse_row", op |-> <<";">>, right |-> "parse_table", next |-> "parse_row"]
      [] e = "parse_row" ->
           [ctor |-> "Row", left |-> "parse_cell", op |-> <<",">>, right |-> "parse_row", next |-> "parse_cell"]
      [] e = "parse_cell" ->
           [ctor |-> "Cell", left |-> "parse_var", op |-> <<":">>, right |-> "parse_cell", next |-> "parse_equals"]
      [] e = "parse_equals" ->
           [ctor |-> "Equals", left |-> "parse_or", op |-> <<"=", "=">>, right |-> "parse_equals",
            next |-> "parse_or"]
      [] e = "parse_or" ->
           [ctor |-> "Or", left |-> "parse_and", op |-> <<"|">>, right |-> "parse_or", next |-> "parse_and"]
      [] e = "parse_and" ->
           [ctor |-> "And", left |-> "parse_not", op |-> <<"&">>, right |-> "parse_and", next |-> "parse_not"]

OpCases ==
    UNION {Cases({e}, Texts({<<"a">>, <<" ">>, RuleParams(e).op}, MaxOpPieces)) : e \in OpRules}

InitOp == InitFrom(OpCases)
SpecOp == InitOp /\ [][Next]_vars

\* In rule e on text i the left operand and the operator token match and a
\* required operand after the operator then fails to parse.
RightFails(e, i) ==
    LET p == RuleParams(e)
        l == call(p.left, i)
        o == tag(p.op, junk(l.rest).rest)
        r == call(p.right, junk(o.rest).rest)
        body == call("parse_let", junk(r.rest).rest)
    IN /\ l.ok
       /\ o.ok
       /\ \/ ~r.ok
          \/ e = "parse_let" /\ ~body.ok

\* C2 (as claimed): when the left operand and the operator match and the
\* right operand fails, the whole rule fails.
C2_CommittedRuleFails ==
    (called /\ entry \in OpRules /\ RightFails(entry, input)) => ~result.ok

\* C2 (amended): in that case the rule does not fail of itself: it returns
\* exactly what parse_next returns on the original input.  In the cascade
\* parse_next is the next-tighter rule and succeeds, so the rule succeeds with
\* that shorter match: parse_equals on "a ==" is Var a with " ==" remaining.
\* Only the list closure of parse_select_vars, whose parse_next is fail, fails.
C2_FallsThrough ==
    (called /\ entry \in OpRules /\ RightFails(entry, input)) =>
        /\ result = call(RuleParams(entry).next, input)
        /\ result.ok = (entry # "parse_select_vars_list")
        /\ (entry = "parse_equals" /\ input = <<"a", " ", "=", "=">>)
               => result = Ok(<<" ", "=", "=">>, Exp("Var", Var(<<"a">>)))

\* parse_equals on "a ==": the operator matched, the right operand is missing.
C2_Witness ==
    /\ called /\ entry = "parse_equals" /\ input = <<"a", " ", "=", "=">>
    /\ RightFails(entry, input)
    /\ result.ok

(***************************************************************************)
(* SpecAssoc: chains "x1 OP x2 OP ... xn" of one binary operator, given to  *)
(* the operator's own rule and to parse_exp.                                *)
(***************************************************************************)
MaxChain == 3

BinaryRules ==
    {"parse_where", "parse_union", "parse_difference", "parse_product", "parse_table",
     "parse_row", "parse_cell", "parse_equals", "parse_or", "parse_and"}

\* The k-th operand of a chain: a variable or an integer literal.
Operand(style, k) ==
    IF style = "var" THEN <<<<"a">>, <<"b">>, <<"c">>, <<"d">>, <<"e">>>>[k]
    ELSE <<<<"1">>, <<"2">>, <<"3">>, <<"4">>, <<"5">>>>[k]

RECURSIVE ChainText(_, _, _, _, _)
ChainText(op, sep, style, k, n) ==
    IF k = n THEN Operand(style, k)
    ELSE Operand(style, k) \o sep \o op \o sep \o ChainText(op, sep, style, k + 1, n)

\* The right-nested tree OP(x_k, OP(x_k+1, ... x_n)); the left field of a Cell
\* is a Var, every other operand is an Exp.
RECURSIVE RightNested(_, _, _, _)
RightNested(ctor, style, k, n) ==
    IF k = n THEN parse_atom(Operand(style, k)).val
    ELSE construct2(ctor,
                    IF ctor = "Cell" THEN Var(Operand(style, k))
                    ELSE parse_atom(Operand(style, k)).val,
                    RightNested(ctor, style, k + 1, n))

Chains ==
    {[rule |-> e, sep |-> sep, style |-> st, n |-> n] :
        e \in BinaryRules, sep \in {<<>>, <<" ">>}, st \in {"var", "int"}, n \in 1..MaxChain}
    \ {c \in [rule : {"parse_cell"}, sep : {<<>>, <<" ">>}, style : {"int"}, n : 1..MaxChain] :
          c.n > 1}

ChainInput(c) == ChainText(RuleParams(c.rule).op, c.sep, c.style, 1, c.n)

AssocCases == UNION {Cases({c.rule, "parse_exp"}, {ChainInput(c)}) : c \in Chains}

InitAssoc == InitFrom(AssocCases)
SpecAssoc == InitAssoc /\ [][Next]_vars

\* Some node of the tree t has a left child built by the same binary
\* constructor as the node itself.
RECURSIVE SameOpOnLeft(_)
SameOpOnLeft(t) ==
    CASE t.exp \in {"Var", "Int", "Bool", "Str"} -> FALSE
      [] t.exp = "Not" -> SameOpOnLeft(t.node.f0)
      [] t.exp = "Let" -> SameOpOnLeft(t.node.f1) \/ SameOpOnLeft(t.node.f2)
      [] t.exp \in {"Select", "Cell"} -> SameOpOnLeft(t.node.f1)
      [] OTHER -> \/ t.node.f0.exp = t.exp
                  \/ SameOpOnLeft(t.node.f0)
                  \/ SameOpOnLeft(t.node.f1)

\* C5: a chain x1 OP x2 OP ... xn of one binary operator parses, at the
\* operator's rule and at parse_exp, to the right-nested tree OP(x1, OP(x2,
\* ...)) with nothing left over, and no tree returned for a text without
\* parentheses has an OP node whose left child is an OP node of the same layer.
C5_RightAssociative ==
    called =>
        /\ \A c \in Chains :
               (entry \in {c.rule, "parse_exp"} /\ input = ChainInput(c)) =>
                   result = Ok(<<>>, RightNested(RuleParams(c.rule).ctor, c.style, 1, c.n))
        /\ (entry \in BinaryRules \cup {"parse_exp"} /\ result.ok /\ ~Contains(input, <<"(">>))
               => ~SameOpOnLeft(result.val)

\* A chain of three operands of Difference parsed by parse_exp.
C5_Witness ==
    /\ called /\ entry = "parse_exp" /\ input = <<"a", "-", "b", "-", "c">>
    /\ result.ok /\ result.val.exp = "Difference" /\ result.val.node.f1.exp = "Difference"

(***************************************************************************)
(* SpecPrec: expressions "x1 OP1 x2 OP2 x3 ..." that mix the operators of   *)
(* six layers, with or without "!" before the operands, given to parse_exp. *)
(***************************************************************************)
MaxOperators == 2

\* The layers from loosest to tightest (parse.rs lines 16-184); the four atom
\* variants share the last layer.
Layers ==
    <<"Let", "Select", "Where", "Union", "Difference", "Product", "Table", "Row", "Cell",
      "Equals", "Or", "And", "Not", "Atom">>

Layer(t) ==
    IF t.exp \in {"Var", "Int", "Bool", "Str"} THEN Len(Layers)
    ELSE CHOOSE k \in DOMAIN Layers : Layers[k] = t.exp

MixRules == {"parse_where", "parse_difference", "parse_cell", "parse_equals", "parse_or", "parse_and"}
MixOperators == {RuleParams(e).op : e \in MixRules}

RECURSIVE MixText(_, _, _)
MixText(ops, prefix, k) ==
    IF ops = <<>> THEN prefix \o Operand("var", k)
    ELSE prefix \o Operand("var", k) \o Head(ops) \o MixText(Tail(ops), prefix, k + 1)

PrecCases ==
    Cases({"parse_exp"},
          {MixText(ops, prefix, 1) :
              ops \in SeqsUpTo(MixOperators, MaxOperators), prefix \in {<<>>, <<"!">>}})

InitPrec == InitFrom(PrecCases)
SpecPrec == InitPrec /\ [][Next]_vars

\* Every binary node Where..And of t has its left child in a strictly tighter
\* layer and its right child in the same or a tighter layer, and every Not
\* has its operand in the Not or the Atom layer.
RECURSIVE Stratified(_)
Stratified(t) ==
    CASE t.exp \in {"Var", "Int", "Bool", "Str"} -> TRUE
      [] t.exp = "Not" -> Layer(t.node.f0) >= Layer(t) /\ Stratified(t.node.f0)
      [] t.exp = "Let" -> Stratified(t.node.f1) /\ Stratified(t.node.f2)
      [] t.exp = "Select" -> Stratified(t.node.f1)
      [] t.exp = "Cell" -> Layer(t.node.f1) >= Layer(t) /\ Stratified(t.node.f1)
      [] OTHER -> /\ Layer(t.node.f0) > Layer(t)
                  /\ Layer(t.node.f1) >= Layer(t)
                  /\ Stratified(t.node.f0)
                  /\ Stratified(t.node.f1)

\* C8: every tree parse_exp returns for a text without parentheses is
\* stratified by layer: left children of binary nodes are strictly tighter,
\* right children and Not operands are the same layer or tighter; "a&b|c" is
\* Or(And(a, b), c) and "a|b&c" is Or(a, And(b, c)).
C8_Stratified ==
    (called /\ entry = "parse_exp" /\ result.ok /\ ~Contains(input, <<"(">>)) =>
        /\ Stratified(result.val)
        /\ input = <<"a", "&", "b", "|", "c">> =>
               result.val = Exp("Or", Or(Exp("And", And(Exp("Var", Var(<<"a">>)),
                                                        Exp("Var", Var(<<"b">>)))),
                                         Exp("Var", Var(<<"c">>))))
        /\ input = <<"a", "|", "b", "&", "c">> =>
               result.val = Exp("Or", Or(Exp("Var", Var(<<"a">>)),
                                         Exp("And", And(Exp("Var", Var(<<"b">>)),
                                                        Exp("Var", Var(<<"c">>))))))

\* A tighter operator to the left of a looser one: the And becomes the left
\* child of the Or.
C8_Witness ==
    /\ called /\ entry = "parse_exp" /\ input = <<"a", "&", "b", "|", "c">>
    /\ result = Ok(<<>>, result.val)
    /\ result.val.exp = "Or" /\ result.val.node.f0.exp = "And"

(***************************************************************************)
(* SpecSelect: variable lists "x1,x2,...,xn" followed by "<-" and a source, *)
(* and short texts over a variable, the comma and the arrow.                *)
(***************************************************************************)
MaxVars == 3

RECURSIVE VarListText(_, _, _)
VarListText(sep, k, n) ==
    IF k = n THEN Operand("var", k)
    ELSE Operand("var", k) \o sep \o VarListText(sep, k + 1, n)

VarList(n) == [k \in 1..n |-> Var(Operand("var", k))]

Selects ==
    {[n |-> n, sep |-> sep, arrow |-> arrow] :
        n \in 1..MaxVars, sep \in {<<",">>, <<" ", ",", " ">>},
        arrow \in {<<"<", "-">>, <<" ", "<", "-", " ">>}}

SelectInput(c) == VarListText(c.sep, 1, c.n) \o c.arrow \o <<"t">>

SelectCases ==
    Cases({"parse_select", "parse_exp"}, {SelectInput(c) : c \in Selects})
    \cup Cases({"parse_select_vars"}, {VarListText(c.sep, 1, c.n) : c \in Selects})
    \cup Cases({"parse_select", "parse_select_vars"},
               Texts({<<"a">>, <<",">>, <<"<", "-">>}, MaxVars + 1))

InitSelect == InitFrom(SelectCases)
SpecSelect == InitSelect /\ [][Next]_vars

\* Some Select node of the tree t has an empty variable sequence.
RECURSIVE EmptySelect(_)
EmptySelect(t) ==
    CASE t.exp \in {"Var", "Int", "Bool", "Str"} -> FALSE
      [] t.exp = "Not" -> EmptySelect(t.node.f0)
      [] t.exp = "Let" -> EmptySelect(t.node.f1) \/ EmptySelect(t.node.f2)
      [] t.exp = "Select" -> t.node.f0 = <<>> \/ EmptySelect(t.node.f1)
      [] t.exp = "Cell" -> EmptySelect(t.node.f1)
      [] OTHER -> EmptySelect(t.node.f0) \/ EmptySelect(t.node.f1)

\* C6: "x1,...,xn <- t" parses to a Select whose variable sequence is exactly
\* x1..xn in that order, parse_select_vars returns the same sequence for the
\* list alone, and no tree returned by parse_select or parse_exp has a Select
\* with an empty variable sequence.
C6_SelectVars ==
    called =>
        /\ \A c \in Selects :
               /\ (entry \in {"parse_select", "parse_exp"} /\ input = SelectInput(c)) =>
                      result = Ok(<<>>, Exp("Select", Select(VarList(c.n),
                                                             Exp("Var", Var(<<"t">>)))))
               /\ (entry = "parse_select_vars" /\ input = VarListText(c.sep, 1, c.n)) =>
                      result = Ok(<<>>, VarList(c.n))
        /\ (entry = "parse_select_vars" /\ result.ok) => result.val # <<>>
        /\ (entry \in {"parse_select", "parse_exp"} /\ result.ok) => ~EmptySelect(result.val)

\* A Select of three variables has been parsed.
C6_Witness ==
    /\ called /\ entry = "parse_select" /\ input = <<"a", ",", "b", ",", "c", "<", "-", "t">>
    /\ result.ok /\ result.val.exp = "Select" /\ Len(result.val.node.f0) = 3

(***************************************************************************)
(* SpecLet: the items "x=", "a" and "-1" joined by single spaces, and the   *)
(* two Let chains "x = true | false y" and "a = b = c d e", given to       *)
(* parse_let.                                                               *)
(***************************************************************************)
MaxItems == 3

LetItems == {<<"x", "=">>, <<"a">>, <<"-", "1">>}

RECURSIVE Join(_)
Join(items) ==
    IF Len(items) = 1 THEN items[1] ELSE items[1] \o <<" ">> \o Join(Tail(items))

Let_true_or_false == <<"x", " ", "=", " ">> \o T_true \o <<" ", "|", " ">> \o T_false \o <<" ", "y">>
Let_nested == <<"a", " ", "=", " ", "b", " ", "=", " ", "c", " ", "d", " ", "e">>

LetCases ==
    Cases({"parse_let"},
          {Join(items) : items \in SeqsUpTo(LetItems, MaxItems) \ {<<>>}}
          \cup {Let_true_or_false, Let_nested})

InitLet == InitFrom(LetCases)
SpecLet == InitLet /\ [][Next]_vars

\* The pieces of "v = E1 E2" as the Let rule meets them: the variable, the
\* "=", one Let-level parse right after it (the bound expression) and one
\* Let-level parse right after that (the body).
LetSplit(i) ==
    LET v == parse_var(i)
        eq == tag(<<"=">>, junk(v.rest).rest)
        bound == parse_let(junk(eq.rest).rest)
        body == parse_let(junk(junk(bound.rest).rest).rest)
    IN [head |-> v.ok /\ eq.ok /\ bound.ok, v |-> v, bound |-> bound, body |-> body]

\* C7: when the variable, the "=" and one Let-level parse after it succeed,
\* parse_let returns Let(v, bound, body) if the next Let-level parse succeeds
\* and otherwise returns what parse_select returns on the whole text, which is
\* never a Let; "x = true | false y" is Let(x, Or(true, false), y) and
\* "a = b = c d e" is Let(a, Let(b, c, d), e).
C7_LetSplit ==
    (called /\ entry = "parse_let") =>
        /\ LetSplit(input).head =>
               IF LetSplit(input).body.ok
               THEN result = Ok(LetSplit(input).body.rest,
                                Exp("Let", Let(LetSplit(input).v.val,
                                               LetSplit(input).bound.val,
                                               LetSplit(input).body.val)))
               ELSE /\ result = parse_select(input)
                    /\ result.ok => result.val.exp # "Let"
        /\ input = Let_true_or_false =>
               result = Ok(<<>>, Exp("Let", Let(Var(<<"x">>),
                                                Exp("Or", Or(Exp("Bool", Bool(TRUE)),
                                                             Exp("Bool", Bool(FALSE)))),
                                                Exp("Var", Var(<<"y">>)))))
        /\ input = Let_nested =>
               result = Ok(<<>>, Exp("Let", Let(Var(<<"a">>),
                                                Exp("Let", Let(Var(<<"b">>),
                                                               Exp("Var", Var(<<"c">>)),
                                                               Exp("Var", Var(<<"d">>)))),
                                                Exp("Var", Var(<<"e">>)))))

\* "x= a -1": the bound expression takes "a -1" as a Difference, no body is
\* left, and the rule returns Var x rather than Let(x, a, -1).
C7_Witness ==
    /\ called /\ entry = "parse_let" /\ input = <<"x", "=", " ", "a", " ", "-", "1">>
    /\ LetSplit(input).head /\ LetSplit(input).bound.val.exp = "Difference"
    /\ ~LetSplit(input).body.ok
    /\ result.ok /\ result.val = Exp("Var", Var(<<"x">>))

(***************************************************************************)
(* SpecJunk: programs written without any junk, with one run of whitespace  *)
(* and comments inserted between two adjacent tokens, given to parse_exp.   *)
(***************************************************************************)
MaxJunk == 2

\* Programs as token sequences; written with no junk between the tokens they
\* keep their tokens apart.
Programs ==
    { << <<"a">>, <<"&">>, <<"b">> >>,
      << <<"x">>, <<"=">>, <<"1">>, <<"y">> >>,
      << <<"a">>, <<"-">>, <<"1">> >>,
      << <<"n">>, <<":">>, <<"'", "A", "'">> >>,
      << <<"!">>, <<"a">> >> }

EmptyLineComment == <<"-", "-", "\n">>
JunkPieces == { <<" ">>, <<"-", "-", "c", "\n">>, <<"/", "*", "c", "*", "/">>, EmptyLineComment }

JunkRuns == Texts(JunkPieces, MaxJunk)
JunkRunsNonEmptyComments == Texts(JunkPieces \ {EmptyLineComment}, MaxJunk)

\* The program p with the run inserted after its g-th token.
Inserted(p, g, run) == Concat(SubSeq(p, 1, g)) \o run \o Concat(SubSeq(p, g + 1, Len(p)))

JunkCases ==
    Cases({"parse_exp"},
          UNION {{Inserted(p, g, run) : g \in 1..(Len(p) - 1), run \in JunkRuns} :
                     p \in Programs})

InitJunk == InitFrom(JunkCases)
SpecJunk == InitJunk /\ [][Next]_vars

\* Whether text i is p with one run from the set inserted after the g-th
\* token, and that run.
RunAt(i, p, g, runs) ==
    LET before == Concat(SubSeq(p, 1, g))
        after == Concat(SubSeq(p, g + 1, Len(p)))
        fits == Len(i) >= Len(before) + Len(after)
        middle == IF fits THEN SubSeq(i, Len(before) + 1, Len(i) - Len(after)) ELSE <<>>
    IN [found |-> fits /\ StartsWith(i, before) /\ IsSuffix(after, i) /\ middle \in runs,
        run |-> middle]

ProgramAST == [p \in Programs |-> parse_exp(Concat(p))]

\* C3 (as claimed): any run of whitespace, line comments (an empty body
\* included) and block comments inserted between two adjacent tokens of an
\* accepted program gives a text that parse_exp accepts with the same tree
\* as the program written without junk.
C3_JunkInvariance ==
    (called /\ entry = "parse_exp") =>
        \A p \in Programs : \A g \in 1..(Len(p) - 1) :
            RunAt(input, p, g, JunkRuns).found =>
                result = Ok(<<>>, ProgramAST[p].val)

\* C3 (what the code does): the junk-free programs are accepted in full, and
\* the tree is unchanged by an inserted run in which every line comment has a
\* non-empty body, unless the run starts with a line comment right after the
\* "-" token, which then reads as part of the comment.
C3_JunkInvarianceNonEmptyComments ==
    (called /\ entry = "parse_exp") =>
        \A p \in Programs : \A g \in 1..(Len(p) - 1) :
            LET at == RunAt(input, p, g, JunkRunsNonEmptyComments) IN
            (at.found /\ ~(p[g] = <<"-">> /\ StartsWith(at.run, <<"-", "-">>))) =>
                /\ ProgramAST[p].ok /\ ProgramAST[p].rest = <<>>
                /\ result = ProgramAST[p]

(***************************************************************************)
(* SpecRun: one call run step by step.  A frame is one invocation of a     *)
(* rule: the rule, the position it was invoked at, the alternative of its   *)
(* alt and the element of that alternative's tuple it has reached, and the  *)
(* position it has reached.  A position is the length of the text that     *)
(* remains.  The lexical rules, which call no rule, are single steps.       *)
(***************************************************************************)
MaxRunPieces == 2

Leaves ==
    {"parse_bool", "parse_int", "parse_str", "parse_var", "whitespace", "line_comment",
     "multi_line_comment", "fail"}

\* Mutant of BinaryShape: the left operand is the rule itself.
BinaryShape_left_recursive(p) ==
    <<binary_op_tuple(p.right, p.op, p.right), <<ElemCall(p.next)>>>>

\* alt((tuple((parse_left, junk, tag(op), junk, parse_right)), parse_next))
BinaryShape(p) == <<binary_op_tuple(p.left, p.op, p.right), <<ElemCall(p.next)>>>>

\* The alternatives of each rule, each a tuple of parsers.
Shape(fn) ==
    CASE fn = "parse_exp" -> <<parse_exp_tuple>>
      [] fn = "parse_let" ->
           <<ternary_op_tuple("parse_var", <<"=">>, "parse_let", <<>>, "parse_let"),
             <<ElemCall("parse_select")>>>>
      [] fn = "parse_select_vars" ->
           << <<ElemCall("parse_select_vars_list")>>, <<ElemCall("parse_var")>> >>
      [] fn = "parse_not" ->
           <<unary_op_tuple(<<"!">>, "parse_not"), <<ElemCall("parse_atom")>>>>
      [] fn = "parse_atom" ->
           << <<ElemCall("parse_parens")>>, <<ElemCall("parse_bool")>>, <<ElemCall("parse_int")>>,
              <<ElemCall("parse_str")>>, <<ElemCall("parse_var")>> >>
      [] fn = "parse_parens" -> <<parse_parens_tuple>>
      [] OTHER -> BinaryShape(RuleParams(fn))

Frame(fn, at) == [fn |-> fn, start |-> at, alt |-> 1, idx |-> 1, cur |-> at]
Top == stack[Len(stack)]
Pop == SubSeq(stack, 1, Len(stack) - 1)
ReplaceTop(f) == [stack EXCEPT ![Len(stack)] = f]
At(n) == Drop(input, Len(input) - n)
Running == ~called /\ ~ret.set /\ stack # <<>>
InTuple == Top.fn # "junk" /\ Top.idx <= Len(Shape(Top.fn)[Top.alt])
Elem == Shape(Top.fn)[Top.alt][Top.idx]

\* The frame after one of its elements failed with an error whose input has
\* n characters: alt goes to the next alternative on the frame's original
\* input; after the last one the frame returns that element's error.
Failed(n) ==
    IF Top.alt < Len(Shape(Top.fn))
    THEN /\ stack' = ReplaceTop([Top EXCEPT !.alt = @ + 1, !.idx = 1, !.cur = Top.start])
         /\ ret' = NoRet
    ELSE /\ stack' = Pop
         /\ ret' = [set |-> TRUE, ok |-> FALSE, cur |-> n]

\* The frame after one of its elements succeeded and left n characters.
Advanced(n) ==
    /\ stack' = ReplaceTop([Top EXCEPT !.idx = @ + 1, !.cur = n])
    /\ ret' = NoRet

\* The next element is a call of a rule that calls other rules: a new frame.
Enter ==
    /\ Running /\ InTuple
    /\ Elem.k = "call" /\ Elem.f \notin Leaves
    /\ stack' = Append(stack, Frame(Elem.f, Top.cur))
    /\ UNCHANGED <<entry, input, called, result, ret>>

\* The next element is a tag or a lexical rule: matched in one step.
Match ==
    /\ Running /\ InTuple
    /\ Elem.k = "tag" \/ Elem.f \in Leaves
    /\ LET r == apply(Elem, At(Top.cur))
       IN IF r.ok THEN Advanced(Len(r.rest)) ELSE Failed(Len(r.rest))
    /\ UNCHANGED <<entry, input, called, result>>

\* One round of the many0 of junk: an element that matches and consumes is
\* skipped, an element that matches nothing is the Many0 error, and an
\* element that fails ends the run with success.
Iterate ==
    /\ Running /\ Top.fn = "junk"
    /\ LET r == junk_item(At(Top.cur))
       IN IF r.ok /\ Len(r.rest) < Top.cur
          THEN stack' = ReplaceTop([Top EXCEPT !.cur = Len(r.rest)]) /\ ret' = NoRet
          ELSE /\ stack' = Pop
               /\ ret' = [set |-> TRUE, ok |-> ~r.ok, cur |-> Top.cur]
    /\ UNCHANGED <<entry, input, called, result>>

\* Every element of the tuple matched: the frame returns its position.
Finish ==
    /\ Running /\ Top.fn # "junk" /\ ~InTuple
    /\ stack' = Pop
    /\ ret' = [set |-> TRUE, ok |-> TRUE, cur |-> Top.cur]
    /\ UNCHANGED <<entry, input, called, result>>

\* The caller takes the returned value as the outcome of its element.
Resume ==
    /\ ~called /\ ret.set /\ stack # <<>>
    /\ IF ret.ok THEN Advanced(ret.cur) ELSE Failed(ret.cur)
    /\ UNCHANGED <<entry, input, called, result>>

\* The outermost call has returned.
Return ==
    /\ ~called /\ ret.set /\ stack = <<>>
    /\ called' = TRUE
    /\ result' = [ok |-> ret.ok, rest |-> At(ret.cur)]
    /\ ret' = NoRet
    /\ UNCHANGED <<entry, input, stack>>

NextRun == Enter \/ Match \/ Iterate \/ Finish \/ Resume \/ Return

RunCases ==
    Cases({"parse_or"}, Texts({<<"a">>, <<"|">>, <<"&">>, <<"!">>, <<" ">>}, MaxRunPieces))
    \cup Cases({"parse_exp"},
               {<<"a">>, <<"x", "=", "a", " ", "b">>,
                <<"/", "*", "c", "*", "/", "a", " ", "-", "-", "c">>,
                <<" ">>, <<" ", "&">>})
    \cup Cases({"parse_not"}, {<<"(", "a", ")">>, <<"(", "a">>, <<"!", "(", " ", "a", ")", "b">>})
    \cup Cases({"parse_parens"}, {<<"(", " ", "a">>, <<"(">>})

InitRun ==
    /\ \E c \in RunCases : entry = c.entry /\ input = c.input
    /\ called = FALSE
    /\ result = NoValue
    /\ stack = <<Frame(entry, Len(input))>>
    /\ ret = NoRet

SpecRun == InitRun /\ [][NextRun]_vars /\ WF_vars(NextRun)

\* No rule is in progress twice at the same position.
NoReentry ==
    \A i, j \in DOMAIN stack :
        (i < j /\ stack[i].fn = stack[j].fn) => stack[j].start < stack[i].start

\* The step-by-step run returns what the rule returns when applied at once:
\* the same outcome and the same remaining input (for an error, its input).
RunAgrees ==
    called => /\ result.ok = call(entry, input).ok
              /\ result.rest = call(entry, input).rest

\* C10: every call returns, with success or failure, and while it runs no
\* rule is in progress twice at the same position: a rule invoked again
\* inside itself (through the cascade, the parentheses, the empty Let
\* separator or the junk repetition) starts at a later position.
C10_Terminates == []NoReentry /\ <>called

\* parse_let is in progress inside parse_let as the operand that follows the
\* empty separator, and started at a later position.
C10_Witness ==
    \E i \in DOMAIN stack :
        /\ i < Len(stack)
        /\ stack[i].fn = "parse_let" /\ stack[i].alt = 1 /\ stack[i].idx = 9
        /\ stack[i + 1].fn = "parse_let"
        /\ stack[i + 1].start < stack[i].start
====
